---- MODULE Spec2Model ----
(***************************************************************************)
(* GraphTheoryVisualizer: the graph algorithm engine of main.py (bfs, dfs, *)
(* dijk, kruskals and the update_* animation callbacks that call them) run *)
(* on the globals adj_list and edge_weights_labels that                    *)
(* create_networkx_graph builds from the editor's nodes, positions and     *)
(* edge list.                                                              *)
(*                                                                         *)
(* Python lists are sequences (1-based here, 0-based in the source),       *)
(* dicts are functions, an adjacency entry [weight, node] is the pair      *)
(* <<weight, node>>, an edge label [u, v, weight] is <<u, v, weight>>.     *)
(***************************************************************************)
EXTENDS Integers, Sequences, FiniteSets, TLC

\* ------------------------------------------------------------------ bounds
MaxEdges == 3
MaxItr == 3
MaxDrawnEdges == 2

\* ------------------------------------------------------- program constants
INF == 2000000000

\* Screen positions (pixels) of the nodes 0, 1, 2, ... of a drawing, in
\* the order the nodes were added: every two positions of a layout are at
\* least min_distance = 20 apart and lie inside graph_screen.  A graph has
\* the first n positions of a layout, n up to its length.  The rounded
\* distances are 70, 70, 141, 110, 72, 90 in the first layout (70 + 70 < 141)
\* and 20, 63, 82, 60, 63, 72 in the second.
Layouts ==
    { << <<200, 100>>, <<250, 150>>, <<300, 200>>, <<310, 110>> >>,
      << <<130, 40>>, <<150, 40>>, <<150, 100>>, <<210, 60>> >> }

algo_buttons == {"Bfs", "Dfs", "Dijkstra", "Kruskal"}

\* ----------------------------------------------------------------- helpers
Range(s) == {s[k] : k \in 1..Len(s)}

Abs(x) == IF x < 0 THEN -x ELSE x

RECURSIVE ISqrtIn(_, _, _)
\* largest r in lo..hi with r*r <= n (lo*lo <= n < (hi+1)*(hi+1))
ISqrtIn(n, lo, hi) ==
    IF lo >= hi THEN lo
    ELSE LET mid == (lo + hi + 1) \div 2
         IN  IF mid * mid <= n THEN ISqrtIn(n, mid, hi) ELSE ISqrtIn(n, lo, mid - 1)

\* int(round(((x1 - x2) ** 2 + (y1 - y2) ** 2) ** .5, 1)): the distance is
\* rounded to the nearest tenth, then truncated.  round(10 * sqrt(d2)) is
\* (isqrt(400 * d2) + 1) div 2; a tie of the rounding would need
\* (2t + 1)^2 = 400 * d2, odd = even.
edge_weight(p1, p2) ==
    LET dx == Abs(p1[1] - p2[1])
        dy == Abs(p1[2] - p2[2])
        d2 == dx * dx + dy * dy
        tenths == (ISqrtIn(400 * d2, 0, 20 * (dx + dy)) + 1) \div 2
    IN  tenths \div 10

RECURSIVE fill_adj(_, _, _, _)
\* the loop "for edge in edges" of create_networkx_graph, from edge k on
fill_adj(adj, labels, p, rest) ==
    IF rest = << >> THEN [adj_list |-> adj, edge_weights_labels |-> labels]
    ELSE LET edge == Head(rest)
             node == edge[1]
             connected_node == edge[2]
             weight == edge_weight(p[node], p[connected_node])
             adj1 == [adj EXCEPT ![node] = Append(@, <<weight, connected_node>>)]
             adj2 == [adj1 EXCEPT ![connected_node] = Append(@, <<weight, node>>)]
         IN  \* "edge not in edge_weights_labels" compares a tuple with lists
             \* and is always true: every edge is labelled
             fill_adj(adj2, Append(labels, <<edge[1], edge[2], weight>>), p, Tail(rest))

\* d.get(key, []) in place of d[key]
subscript_default(d, key) ==
    [raised |-> FALSE, value |-> IF key \in DOMAIN d THEN d[key] ELSE << >>]

\* d[key] of a dict: the value, or KeyError raised
subscript(d, key) ==
    IF key \in DOMAIN d THEN [raised |-> FALSE, value |-> d[key]]
    ELSE [raised |-> TRUE, value |-> << >>]

create_networkx_graph(p, nodes, edges) ==
    fill_adj([n \in Range(nodes) |-> << >>], << >>, p, edges)


\* ------------------------------------------------------------------- state
VARIABLES
    nodes,                \* editor: node names, in creation order
    position,             \* editor: node name -> (x, y)
    edges,                \* editor: Graph.get_edges(), pairs (u, v)
    selected_algorithm,   \* Interface.py global
    start,                \* Interface.py global
    my_nodes,             \* editor: the Node objects, keys of Graph.graph in insertion order
    graph,                \* editor: Graph.graph, node name -> list of (node name, weight)
    edge_list,            \* editor: Graph.edge_list, the Edge objects as (u, v, weight)
    add_node_mode,        \* Interface.py global
    primary,              \* Interface.py global: -1 or a node name
    node_name,            \* Interface.py global: the next node's name
    adj_list,             \* main.py global: node -> list of [weight, node]
    edge_weights_labels,  \* main.py global: list of [u, v, weight]
    pc,                   \* where the animation callback is
    queue, bfs_visited, order_visited,             \* locals of bfs
    stack, visited, path,                          \* dfs: call stack and the two lists
    order,                                         \* local of update_dfs
    dists, heap, animation_dists, node_order,      \* locals of dijk
    targeted_index, current_label, targeted_nodes, \* locals of update_dijk
    root, i, order_vis,                            \* locals of kruskals
    call_adj, call_labels \* adj_list and edge_weights_labels as they were when the engine was called

interface_vars == <<my_nodes, graph, edge_list, add_node_mode, primary, node_name>>
editor_vars == <<nodes, position, edges, selected_algorithm, start, interface_vars>>
bfs_vars == <<queue, bfs_visited, order_visited>>
dfs_vars == <<stack, visited, path, order>>
dijk_vars == <<dists, heap, animation_dists, node_order>>
draw_vars == <<targeted_index, current_label, targeted_nodes>>
kruskals_vars == <<root, i, order_vis>>
call_vars == <<call_adj, call_labels>>
vars == <<nodes, position, edges, selected_algorithm, start, my_nodes, graph,
          edge_list, add_node_mode, primary, node_name, adj_list,
          edge_weights_labels, pc, queue, bfs_visited, order_visited, stack,
          visited, path, order, dists, heap, animation_dists, node_order,
          targeted_index, current_label, targeted_nodes, root, i, order_vis,
          call_adj, call_labels>>

\* ---------------------------------------------------------------------- bfs
\* bfs_init with the start node left out of bfs_visited
bfs_init_unmarked(s) ==
    [queue |-> <<s>>, bfs_visited |-> << >>, order_visited |-> << <<s, s>> >>]

\* lines 80-84
bfs_init(s) ==
    [queue |-> <<s>>, bfs_visited |-> <<s>>, order_visited |-> << <<s, s>> >>]

RECURSIVE bfs_scan(_, _, _)
\* lines 90-98: "for neighbour in graph[current_node]" over the rest of the list
bfs_scan(st, current_node, nbrs) ==
    IF nbrs = << >> THEN st
    ELSE LET adjacent_node == Head(nbrs)[2]
         IN  IF adjacent_node \notin Range(st.bfs_visited)
             THEN bfs_scan([queue |-> Append(st.queue, adjacent_node),
                            bfs_visited |-> Append(st.bfs_visited, adjacent_node),
                            order_visited |-> Append(st.order_visited,
                                                     <<current_node, adjacent_node>>)],
                           current_node, Tail(nbrs))
             ELSE bfs_scan(st, current_node, Tail(nbrs))

\* update_bfs calls bfs(adj_list, start)
update_bfs ==
    /\ pc \in {"idle", "done"}
    /\ selected_algorithm = "Bfs"
    /\ LET st == bfs_init(start)
       IN  /\ queue' = st.queue
           /\ bfs_visited' = st.bfs_visited
           /\ order_visited' = st.order_visited
    /\ call_adj' = adj_list
    /\ call_labels' = edge_weights_labels
    /\ pc' = "bfs"
    /\ UNCHANGED <<editor_vars, adj_list, edge_weights_labels, dfs_vars,
                   dijk_vars, draw_vars, kruskals_vars>>

\* one pass of "while queue" (lines 87-99)
bfs_step ==
    /\ pc = "bfs"
    /\ queue # << >>
    /\ LET current_node == queue[1]
           nbrs == subscript(adj_list, current_node)
       IN  IF ~nbrs.raised
           THEN LET st == bfs_scan([queue |-> queue, bfs_visited |-> bfs_visited,
                                    order_visited |-> order_visited],
                                   current_node, nbrs.value)
                IN  /\ queue' = Tail(st.queue)
                    /\ bfs_visited' = st.bfs_visited
                    /\ order_visited' = st.order_visited
                    /\ pc' = "bfs"
           ELSE \* graph[current_node] raises KeyError
                /\ pc' = "error"
                /\ UNCHANGED bfs_vars
    /\ UNCHANGED <<editor_vars, adj_list, edge_weights_labels, dfs_vars,
                   dijk_vars, draw_vars, kruskals_vars, call_vars>>

\* line 100: the queue is empty, bfs returns order_visited
bfs_return ==
    /\ pc = "bfs"
    /\ queue = << >>
    /\ pc' = "done"
    /\ UNCHANGED <<editor_vars, adj_list, edge_weights_labels, bfs_vars, dfs_vars,
                   dijk_vars, draw_vars, kruskals_vars, call_vars>>

\* ---------------------------------------------------------------------- dfs
\* dfs_backtrack without the test for the root
dfs_backtrack_always(p, parent) == Append(p, parent)

\* lines 135-136
dfs_backtrack(p, parent) ==
    IF parent # -1 THEN Append(p, parent) ELSE p

\* update_dfs calls dfs(adj_list, start, -1, [], []); lines 126-130 of the
\* root call
update_dfs ==
    /\ pc \in {"idle", "done"}
    /\ selected_algorithm = "Dfs"
    /\ visited' = <<start>>
    /\ path' = <<start>>
    /\ stack' = << [current |-> start, parent |-> -1, k |-> 1] >>
    /\ order' = << >>
    /\ call_adj' = adj_list
    /\ call_labels' = edge_weights_labels
    /\ pc' = "dfs"
    /\ UNCHANGED <<editor_vars, adj_list, edge_weights_labels, bfs_vars,
                   dijk_vars, draw_vars, kruskals_vars>>

\* the frame on top of the stack is at "for adj in graph[current]" (line 131)
dfs_top == stack[Len(stack)]

dfs_advance == [stack EXCEPT ![Len(stack)].k = @ + 1]

\* graph[current] of the top frame
dfs_adj == subscript(adj_list, dfs_top.current)

\* line 131 of the root call when start is not a key of graph
dfs_keyerror ==
    /\ pc = "dfs"
    /\ stack # << >>
    /\ dfs_adj.raised
    /\ pc' = "error"
    /\ UNCHANGED <<editor_vars, adj_list, edge_weights_labels, bfs_vars, dfs_vars,
                   dijk_vars, draw_vars, kruskals_vars, call_vars>>

\* line 133 calls dfs on a neighbour already visited: lines 126-127 return
dfs_skip ==
    /\ pc = "dfs"
    /\ stack # << >>
    /\ ~dfs_adj.raised
    /\ dfs_top.k <= Len(dfs_adj.value)
    /\ LET adjacent_node == dfs_adj.value[dfs_top.k][2]
       IN  adjacent_node \in Range(visited)
    /\ stack' = dfs_advance
    /\ UNCHANGED <<editor_vars, adj_list, edge_weights_labels, bfs_vars, visited,
                   path, order, pc, dijk_vars, draw_vars, kruskals_vars, call_vars>>

\* line 133 calls dfs on an unvisited neighbour: lines 129-130
dfs_visit ==
    /\ pc = "dfs"
    /\ stack # << >>
    /\ ~dfs_adj.raised
    /\ dfs_top.k <= Len(dfs_adj.value)
    /\ LET adjacent_node == dfs_adj.value[dfs_top.k][2]
       IN  /\ adjacent_node \notin Range(visited)
           /\ visited' = Append(visited, adjacent_node)
           /\ path' = Append(path, adjacent_node)
           /\ stack' = Append(dfs_advance,
                              [current |-> adjacent_node,
                               parent |-> dfs_top.current, k |-> 1])
    /\ UNCHANGED <<editor_vars, adj_list, edge_weights_labels, bfs_vars, pc, order,
                   dijk_vars, draw_vars, kruskals_vars, call_vars>>

\* the test of update_dfs with the pair itself in place of the reversed pair
order_keeps_new(ord, new_edge, reversed_edge) == new_edge \notin Range(ord)

\* update_dfs line 156
order_keeps(ord, new_edge, reversed_edge) == reversed_edge \notin Range(ord)

RECURSIVE order_loop(_, _, _)
\* update_dfs lines 153-157, from i = k - 1 on
order_loop(ord, p, k) ==
    IF k > Len(p) - 1 THEN ord
    ELSE LET new_edge == <<p[k], p[k + 1]>>
             reversed_edge == <<p[k + 1], p[k]>>
         IN  order_loop(IF order_keeps(ord, new_edge, reversed_edge)
                        THEN Append(ord, new_edge) ELSE ord,
                        p, k + 1)

\* the loop of the top frame is over: lines 135-138; when the root call
\* returns, update_dfs builds order from the path (lines 152-157)
dfs_return ==
    /\ pc = "dfs"
    /\ stack # << >>
    /\ ~dfs_adj.raised
    /\ dfs_top.k > Len(dfs_adj.value)
    /\ path' = dfs_backtrack(path, dfs_top.parent)
    /\ stack' = SubSeq(stack, 1, Len(stack) - 1)
    /\ order' = IF Len(stack) = 1
                THEN order_loop(<< <<start, start>> >>, path', 1)
                ELSE order
    /\ pc' = IF Len(stack) = 1 THEN "done" ELSE "dfs"
    /\ UNCHANGED <<editor_vars, adj_list, edge_weights_labels, bfs_vars, visited,
                   dijk_vars, draw_vars, kruskals_vars, call_vars>>


\* --------------------------------------------------------------------- dijk
\* heapq on tuples (distance, node): tuples are totally ordered, so the item
\* heappop returns is the least tuple of the heap whatever the layout of the
\* list; the heap is kept here as the sorted list of its items.
tuple_less(a, b) == a[1] < b[1] \/ (a[1] = b[1] /\ a[2] < b[2])

\* heap.append(item): the list is a queue
hpush_append(h, item) == Append(h, item)

hpush(h, item) ==
    LET before == Cardinality({k \in 1..Len(h) : ~ tuple_less(item, h[k])})
    IN  SubSeq(h, 1, before) \o <<item>> \o SubSeq(h, before + 1, Len(h))

\* heap[0] read and left in the heap
hpop_kept(h) == [item |-> Head(h), heap |-> h]

hpop(h) == [item |-> Head(h), heap |-> Tail(h)]

\* dict_copy that appends dists itself instead of a copy
dict_alias(d) == [live |-> TRUE, val |-> d]

\* dists.copy(): an entry of animation_dists that is a copy keeps its own
\* value; an entry that is the dict dists itself (live) shows whatever dists
\* holds now.
dict_copy(d) == [live |-> FALSE, val |-> d]

\* the dict an entry of animation_dists denotes
deref(entry, d) == IF entry.live THEN d ELSE entry.val

\* relax_test that compares the edge weight alone
relax_test_edge_only(d, cur, wt, node) == wt < d[node]

\* line 256
relax_test(d, cur, wt, node) == d[cur] + wt < d[node]

\* relax_value that forgets the distance of cur
relax_value_edge_only(d, cur, wt) == wt

\* line 257
relax_value(d, cur, wt) == d[cur] + wt

RECURSIVE dijk_scan(_, _, _)
\* lines 255-260: "for wt, node in graph[cur]" over the rest of the list
dijk_scan(st, cur, nbrs) ==
    IF nbrs = << >> THEN st
    ELSE LET wt == Head(nbrs)[1]
             node == Head(nbrs)[2]
         IN  IF relax_test(st.dists, cur, wt, node)
             THEN LET d1 == [st.dists EXCEPT ![node] = relax_value(st.dists, cur, wt)]
                  IN  dijk_scan([dists |-> d1,
                                 heap |-> hpush(st.heap, <<d1[node], node>>),
                                 node_order |-> Append(st.node_order, node),
                                 animation_dists |-> Append(st.animation_dists, dict_copy(d1))],
                                cur, Tail(nbrs))
             ELSE dijk_scan(st, cur, Tail(nbrs))

\* lines 249 and 251
dijk_init_dists(g, s) ==
    [n \in (DOMAIN g) \cup {s} |-> IF n = s THEN 0 ELSE INF]

\* update_dijk calls dijk(adj_list, start): lines 248-252
update_dijk ==
    /\ pc \in {"idle", "done"}
    /\ selected_algorithm = "Dijkstra"
    /\ node_order' = <<start>>
    /\ dists' = dijk_init_dists(adj_list, start)
    /\ heap' = << <<0, start>> >>
    /\ animation_dists' = << dict_copy(dists') >>
    /\ call_adj' = adj_list
    /\ call_labels' = edge_weights_labels
    /\ pc' = "dijk"
    /\ UNCHANGED <<editor_vars, adj_list, edge_weights_labels, bfs_vars, dfs_vars,
                   draw_vars, kruskals_vars>>

\* one pass of "while heap" (lines 253-260)
dijk_step ==
    /\ pc = "dijk"
    /\ heap # << >>
    /\ LET popped == hpop(heap)
           cur == popped.item[2]
           nbrs == subscript(adj_list, cur)
       IN  IF ~nbrs.raised
           THEN LET st == dijk_scan([dists |-> dists, heap |-> popped.heap,
                                     node_order |-> node_order,
                                     animation_dists |-> animation_dists],
                                    cur, nbrs.value)
                IN  /\ dists' = st.dists
                    /\ heap' = st.heap
                    /\ node_order' = st.node_order
                    /\ animation_dists' = st.animation_dists
                    /\ pc' = "dijk"
           ELSE \* graph[cur] raises KeyError, after the pop
                /\ heap' = popped.heap
                /\ pc' = "error"
                /\ UNCHANGED <<dists, node_order, animation_dists>>
    /\ UNCHANGED <<editor_vars, adj_list, edge_weights_labels, bfs_vars, dfs_vars,
                   draw_vars, kruskals_vars, call_vars>>

\* line 262: the heap is empty, dijk returns animation_dists, order_visited
dijk_return ==
    /\ pc = "dijk"
    /\ heap = << >>
    /\ pc' = "dijk_returned"
    /\ UNCHANGED <<editor_vars, adj_list, edge_weights_labels, bfs_vars, dfs_vars,
                   dijk_vars, draw_vars, kruskals_vars, call_vars>>

\* update_dijk lines 285-297 for frame number itr: the snapshot
\* order[targeted_index] is relabelled in place and shown with the node
\* node_order[targeted_index]
update_dijk_draw ==
    /\ pc = "dijk_returned"
    /\ \E itr \in 0..MaxItr :
         LET idx == itr % Len(animation_dists)
             snap == deref(animation_dists[idx + 1], dists)
             label == [n \in DOMAIN snap |-> IF snap[n] = INF THEN "Inf" ELSE snap[n]]
         IN  /\ targeted_index' = idx
             /\ current_label' = label
             /\ animation_dists' = [animation_dists EXCEPT ![idx + 1].val = label]
             /\ dists' = IF animation_dists[idx + 1].live THEN label ELSE dists
             /\ targeted_nodes' = <<node_order[idx + 1]>>
    /\ pc' = "done"
    /\ UNCHANGED <<editor_vars, adj_list, edge_weights_labels, bfs_vars, dfs_vars,
                   heap, node_order, kruskals_vars, call_vars>>

\* ----------------------------------------------------------------- kruskals
RECURSIVE insert_before_equal(_, _)
\* insert_by_weight that puts e before the elements of equal key
insert_before_equal(sorted, e) ==
    IF sorted = << >> THEN <<e>>
    ELSE IF e[3] <= Head(sorted)[3] THEN <<e>> \o sorted
         ELSE <<Head(sorted)>> \o insert_before_equal(Tail(sorted), e)

RECURSIVE insert_by_weight(_, _)
\* e goes after every element whose key is not greater than its own
insert_by_weight(sorted, e) ==
    IF sorted = << >> THEN <<e>>
    ELSE IF e[3] < Head(sorted)[3] THEN <<e>> \o sorted
         ELSE <<Head(sorted)>> \o insert_by_weight(Tail(sorted), e)

\* sort_by_weight that leaves the list as it is
sort_by_weight_skipped(es) == es

RECURSIVE sort_by_weight(_)
\* list.sort(key=lambda x: x[2]) (line 198): ascending and stable
sort_by_weight(es) ==
    IF es = << >> THEN << >>
    ELSE insert_by_weight(sort_by_weight(SubSeq(es, 1, Len(es) - 1)), es[Len(es)])

RECURSIVE find(_, _)
\* lines 200-205; the result is the representative and the list root after
\* the path compression
find(r, x) ==
    IF r[x] = x THEN [root |-> r, rep |-> x]
    ELSE LET f == find(r, r[x])
         IN  [root |-> [f.root EXCEPT ![x] = f.rep], rep |-> f.rep]

\* join that links the two nodes themselves: root[a] = b
join_without_find(r, a, b) == [r EXCEPT ![a] = b]

\* join with its operands swapped: root[find(b)] = root[find(a)]
join_swapped(r, a, b) ==
    LET fa == find(r, a)
        value == fa.root[fa.rep]
        fb == find(fa.root, b)
    IN  [fb.root EXCEPT ![fb.rep] = value]

\* lines 207-208, root[find(a)] = root[find(b)]: the right-hand side is
\* evaluated first, then the subscript of the target
join(r, a, b) ==
    LET fb == find(r, b)
        value == fb.root[fb.rep]
        fa == find(fb.root, a)
    IN  [fa.root EXCEPT ![fa.rep] = value]

\* update_mst calls kruskals(edge_weights_labels, len(G.nodes)): lines 196-210
update_mst ==
    /\ pc \in {"idle", "done"}
    /\ selected_algorithm = "Kruskal"
    /\ root' = [x \in 0..(Len(nodes) - 1) |-> x]
    /\ edge_weights_labels' = sort_by_weight(edge_weights_labels)
    /\ order_vis' = << >>
    /\ i' = 0
    /\ call_adj' = adj_list
    /\ call_labels' = edge_weights_labels
    /\ pc' = "kruskals"
    /\ UNCHANGED <<editor_vars, adj_list, bfs_vars, dfs_vars, dijk_vars, draw_vars>>

\* one pass of "for i in range(len(edges))" (lines 212-222)
kruskals_step ==
    /\ pc = "kruskals"
    /\ i < Len(edge_weights_labels)
    /\ LET edge == edge_weights_labels[i + 1]
           a == edge[1]
           b == edge[2]
           fa == find(root, a)
           fb == find(fa.root, b)
           added == fa.rep # fb.rep
       IN  /\ root' = IF added THEN join(fb.root, a, b) ELSE fb.root
           /\ order_vis' = Append(order_vis, <<edge, added>>)
    /\ i' = i + 1
    /\ UNCHANGED <<editor_vars, adj_list, edge_weights_labels, pc, bfs_vars,
                   dfs_vars, dijk_vars, draw_vars, call_vars>>

\* line 224
kruskals_return ==
    /\ pc = "kruskals"
    /\ i = Len(edge_weights_labels)
    /\ pc' = "done"
    /\ UNCHANGED <<editor_vars, adj_list, edge_weights_labels, bfs_vars, dfs_vars,
                   dijk_vars, draw_vars, kruskals_vars, call_vars>>

\* ------------------------------------------------------------------- editor
\* The drawing of the editor runs: the first three positions of the second
\* layout, the first two exactly min_distance apart.
EditorLayouts ==
    { << <<130, 40>>, <<150, 40>>, <<150, 100>> >> }

min_distance == 20

\* the buttons of the list buttons that set add_node_mode alone
mode_buttons == {"Add Edge", "Add Node", "Del Edge", "Select Start node"}

button_mode(text) ==
    CASE text = "Add Edge" -> 0
      [] text = "Add Node" -> 1
      [] text = "Del Edge" -> 3
      [] text = "Select Start node" -> 4

\* square of the distance between two positions
dist2(p1, p2) ==
    (p1[1] - p2[1]) * (p1[1] - p2[1]) + (p1[2] - p2[2]) * (p1[2] - p2[2])

\* graph_screen = Rect(120, 0, 1400, 800)
graph_screen_collidepoint(p) ==
    /\ 120 <= p[1] /\ p[1] < 120 + 1400
    /\ 0 <= p[2] /\ p[2] < 800

Node(name, pos, st) == [name |-> name, position |-> pos, state |-> st]

node_named(ns, name) == ns[CHOOSE k \in 1..Len(ns) : ns[k].name = name]

set_state(ns, name, st) ==
    [k \in 1..Len(ns) |-> IF ns[k].name = name THEN [ns[k] EXCEPT !.state = st] ELSE ns[k]]

\* Edge.__init__ and get_edge_data: (u.name, v.name, weight).  The weight is
\* the float ((x1 - x2) ** 2 + (y1 - y2) ** 2) ** 0.5; it is kept here as its
\* square, which is equal for two edges exactly when the floats are.
Edge(u, v) == <<u.name, v.name, dist2(u.position, v.position)>>

\* Graph.not_within_min: whether no node is nearer than min_distance, and
\* the nodes after the near ones were selected (in every mode but 1)
not_within_min(ns, mouse_pos, mode) ==
    LET near(k) == /\ ns[k].state # -1
                   /\ dist2(ns[k].position, mouse_pos) < min_distance * min_distance
    IN  [not_within |-> \A k \in 1..Len(ns) : ~near(k),
         my_nodes |-> [k \in 1..Len(ns) |->
                          IF near(k) /\ mode # 1
                          THEN [ns[k] EXCEPT !.state = 1] ELSE ns[k]]]

\* the lists with the elements of the set S, each once: list(set(...))
Perms(S) ==
    {p \in [1..Cardinality(S) -> S] :
        \A x, y \in 1..Cardinality(S) : x # y => p[x] # p[y]}

\* Graph.get_edges before list(): the set of the tuples of edge_list
get_edges(el) == Range(el)

\* add_bi_edge lines 250-251 with the edge filed under its first node alone
file_edge_directed(g, edge) ==
    [g EXCEPT ![edge[1]] = Append(@, <<edge[2], edge[3]>>)]

\* add_bi_edge lines 250-251
file_edge(g, edge) ==
    LET g1 == [g EXCEPT ![edge[1]] = Append(@, <<edge[2], edge[3]>>)]
    IN  [g1 EXCEPT ![edge[2]] = Append(@, <<edge[1], edge[3]>>)]

\* Graph.add_bi_edge: the outcomes, one for each order list(set(...)) may
\* give the Edge objects
add_bi_edge(g, el, edge) ==
    {[graph |-> file_edge(g, edge), edge_list |-> p] :
        p \in Perms(Range(Append(el, edge)))}

RECURSIVE file_edges(_, _, _)
\* the graph after add_bi_edge for the pairs (u, v) of es, in order
file_edges(g, ns, es) ==
    IF es = << >> THEN g
    ELSE file_edges(file_edge(g, Edge(node_named(ns, Head(es)[1]),
                                      node_named(ns, Head(es)[2]))),
                    ns, Tail(es))

\* list.remove(x): the first element equal to x is removed
remove(s, x) ==
    LET k == CHOOSE j \in 1..Len(s) : s[j] = x /\ \A h \in 1..(j - 1) : s[h] # x
    IN  SubSeq(s, 1, k - 1) \o SubSeq(s, k + 1, Len(s))

\* Graph.del_edge; raised when a remove finds nothing (ValueError)
del_edge(g, el, edge) ==
    LET u == edge[1]
        v == edge[2]
        found == /\ edge \in Range(el)
                 /\ <<v, edge[3]>> \in Range(g[u])
                 /\ <<u, edge[3]>> \in Range(g[v])
    IN  IF ~found THEN [graph |-> g, edge_list |-> el, raised |-> TRUE]
        ELSE LET g1 == [g EXCEPT ![u] = remove(@, <<v, edge[3]>>)]
                 g2 == [g1 EXCEPT ![v] = remove(@, <<u, edge[3]>>)]
             IN  [graph |-> g2, edge_list |-> remove(el, edge), raised |-> FALSE]

\* main lines 544-550: the edge from primary to secondary is added unless
\* its tuple is one of get_edges(); both nodes are deselected
add_edge_body(st) ==
    LET new_edge == Edge(node_named(st.my_nodes, st.primary),
                         node_named(st.my_nodes, st.secondary))
        deselected == set_state(set_state(st.my_nodes, st.primary, 0), st.secondary, 0)
        added == IF new_edge \notin get_edges(st.edge_list)
                 THEN add_bi_edge(st.graph, st.edge_list, new_edge)
                 ELSE {[graph |-> st.graph, edge_list |-> st.edge_list]}
    IN  {[st EXCEPT !.graph = a.graph, !.edge_list = a.edge_list,
                    !.my_nodes = deselected, !.primary = -1, !.secondary = -1] :
         a \in added}

\* main lines 539-542 (and 561-564): the node becomes primary or secondary
select_ends(st, node) ==
    IF st.primary = -1 /\ node.state = 1
    THEN [st EXCEPT !.primary = node.name]
    ELSE IF st.primary # -1 /\ node.state = 1 /\ st.primary # node.name
         THEN [st EXCEPT !.secondary = node.name]
         ELSE st

RECURSIVE add_edge_loop(_, _)
\* main lines 538-550 from the k-th node of the graph on: the outcomes
add_edge_loop(st, k) ==
    IF k > Len(st.my_nodes) THEN {st}
    ELSE LET st1 == select_ends(st, st.my_nodes[k])
         IN  IF st1.primary # -1 /\ st1.secondary # -1
             THEN UNION {add_edge_loop(st2, k + 1) : st2 \in add_edge_body(st1)}
             ELSE add_edge_loop(st1, k + 1)

RECURSIVE del_edge_iter(_, _, _, _, _, _)
\* main lines 566-569: "for edge in my_graph.edge_list" reads the list by
\* index while del_edge removes from it
del_edge_iter(g, el, idx, p, s, raised) ==
    IF raised \/ idx > Len(el) THEN [graph |-> g, edge_list |-> el, raised |-> raised]
    ELSE LET edge == el[idx]
         IN  IF \/ edge[1] = p /\ edge[2] = s
                \/ edge[2] = p /\ edge[1] = s
             THEN LET d == del_edge(g, el, edge)
                  IN  del_edge_iter(d.graph, d.edge_list, idx + 1, p, s, d.raised)
             ELSE del_edge_iter(g, el, idx + 1, p, s, FALSE)

\* main lines 565-573
del_edge_body(st) ==
    LET d == del_edge_iter(st.graph, st.edge_list, 1, st.primary, st.secondary, FALSE)
        deselected == set_state(set_state(st.my_nodes, st.primary, 0), st.secondary, 0)
    IN  IF d.raised
        THEN [st EXCEPT !.graph = d.graph, !.edge_list = d.edge_list, !.raised = TRUE]
        ELSE [st EXCEPT !.graph = d.graph, !.edge_list = d.edge_list,
                        !.my_nodes = deselected, !.primary = -1, !.secondary = -1]

RECURSIVE del_edge_loop(_, _)
\* main lines 560-573 from the k-th node of the graph on
del_edge_loop(st, k) ==
    IF st.raised \/ k > Len(st.my_nodes) THEN st
    ELSE LET st1 == select_ends(st, st.my_nodes[k])
         IN  IF st1.primary # -1 /\ st1.secondary # -1
             THEN del_edge_loop(del_edge_body(st1), k + 1)
             ELSE del_edge_loop(st1, k + 1)

RECURSIVE select_start_loop(_, _, _)
\* main lines 577-580 from the k-th node on: the start and the nodes
select_start_loop(s, ns, k) ==
    IF k > Len(ns) THEN [start |-> s, my_nodes |-> ns]
    ELSE select_start_loop(IF ns[k].state = 1 THEN ns[k].name ELSE s,
                           [ns EXCEPT ![k].state = 0], k + 1)

\* the state the loops of main work on
loop_state(ns) ==
    [my_nodes |-> ns, primary |-> primary, secondary |-> -1, graph |-> graph,
     edge_list |-> edge_list, raised |-> FALSE]

run_vars == <<nodes, position, edges>>
engine_vars == <<adj_list, edge_weights_labels, bfs_vars, dfs_vars, dijk_vars,
                 draw_vars, kruskals_vars, call_vars>>

\* is_clicked of a button that sets the mode (lines 446-453, 467-468)
click_mode_button ==
    /\ pc = "editing"
    /\ \E text \in mode_buttons : add_node_mode' = button_mode(text)
    /\ UNCHANGED <<run_vars, selected_algorithm, start, my_nodes, graph, edge_list,
                   primary, node_name, pc, engine_vars>>

\* is_clicked of one of the algorithm buttons in texts (lines 461-465)
click_algorithm_in(texts) ==
    /\ pc = "editing"
    /\ \E text \in texts : selected_algorithm' = text
    /\ add_node_mode' = 4
    /\ UNCHANGED <<run_vars, start, my_nodes, graph, edge_list, primary, node_name,
                   pc, engine_vars>>

\* node_name += 2
next_name_skipping(name) == name + 2

\* line 534
next_name(name) == name + 1

\* a click in mode 1 on the next free position of a layout (lines 530-534)
add_node_click ==
    /\ pc = "editing"
    /\ add_node_mode = 1
    /\ \E layout \in EditorLayouts :
         /\ Len(my_nodes) < Len(layout)
         /\ \A k \in 1..Len(my_nodes) : my_nodes[k].position = layout[k]
         /\ LET mouse_pos == layout[Len(my_nodes) + 1]
            IN  /\ not_within_min(my_nodes, mouse_pos, add_node_mode).not_within
                /\ graph_screen_collidepoint(mouse_pos)
                /\ my_nodes' = Append(my_nodes, Node(node_name, mouse_pos, 0))
    /\ graph' = [n \in DOMAIN graph \cup {node_name} |->
                    IF n \in DOMAIN graph THEN graph[n] ELSE << >>]
    /\ node_name' = next_name(node_name)
    /\ UNCHANGED <<run_vars, selected_algorithm, start, edge_list, add_node_mode,
                   primary, pc, engine_vars>>

\* a click on a node in mode 0 (lines 536-550)
add_edge_click ==
    /\ pc = "editing"
    /\ add_node_mode = 0
    /\ \E k \in 1..Len(my_nodes) :
         LET mouse_pos == my_nodes[k].position
             near == not_within_min(my_nodes, mouse_pos, add_node_mode)
         IN  /\ ~near.not_within
             /\ \E out \in add_edge_loop(loop_state(near.my_nodes), 1) :
                   /\ Len(out.edge_list) <= MaxDrawnEdges
                   /\ my_nodes' = out.my_nodes
                   /\ primary' = out.primary
                   /\ graph' = out.graph
                   /\ edge_list' = out.edge_list
    /\ UNCHANGED <<run_vars, selected_algorithm, start, add_node_mode, node_name,
                   pc, engine_vars>>

\* a click on a node in mode 3 (lines 558-573)
del_edge_click ==
    /\ pc = "editing"
    /\ add_node_mode = 3
    /\ \E k \in 1..Len(my_nodes) :
         LET mouse_pos == my_nodes[k].position
             near == not_within_min(my_nodes, mouse_pos, add_node_mode)
             out == del_edge_loop(loop_state(near.my_nodes), 1)
         IN  /\ ~near.not_within
             /\ my_nodes' = out.my_nodes
             /\ primary' = out.primary
             /\ graph' = out.graph
             /\ edge_list' = out.edge_list
             /\ pc' = IF out.raised THEN "error" ELSE pc
    /\ UNCHANGED <<run_vars, selected_algorithm, start, add_node_mode, node_name,
                   engine_vars>>

\* a click on a node in mode 4 (lines 575-583)
select_start_click ==
    /\ pc = "editing"
    /\ add_node_mode = 4
    /\ \E k \in 1..Len(my_nodes) :
         LET mouse_pos == my_nodes[k].position
             near == not_within_min(my_nodes, mouse_pos, add_node_mode)
             out == select_start_loop(start, near.my_nodes, 1)
         IN  /\ ~near.not_within
             /\ start' = out.start
             /\ my_nodes' = out.my_nodes
    /\ UNCHANGED <<run_vars, selected_algorithm, graph, edge_list, add_node_mode,
                   primary, node_name, pc, engine_vars>>

\* Graph.get_positions
get_positions(ns) ==
    [name \in {ns[k].name : k \in {j \in 1..Len(ns) : ns[j].state # -1}} |->
        node_named(ns, name).position]

\* Graph.get_nodes().keys(): the names, in the order of Graph.graph
get_nodes(ns) == [k \in 1..Len(ns) |-> ns[k].name]

\* is_clicked of Run (lines 470-474): create_networkx_graph fills the
\* global adj_list from the drawing; the animation window then opens and
\* plt.show() keeps the editor waiting
run_clicked ==
    /\ pc = "editing"
    /\ position' = get_positions(my_nodes)
    /\ nodes' = get_nodes(my_nodes)
    /\ \E es \in Perms(get_edges(edge_list)) :
         edges' = [k \in 1..Len(es) |-> <<es[k][1], es[k][2]>>]
    /\ LET g == create_networkx_graph(position', nodes', edges')
       IN  /\ adj_list' = [n \in DOMAIN adj_list \cup DOMAIN g.adj_list |->
                              IF n \in DOMAIN g.adj_list THEN g.adj_list[n]
                              ELSE adj_list[n]]
           /\ edge_weights_labels' = g.edge_weights_labels
    /\ call_adj' = adj_list'
    /\ call_labels' = edge_weights_labels'
    /\ pc' = "idle"
    /\ UNCHANGED <<selected_algorithm, start, interface_vars, bfs_vars, dfs_vars,
                   dijk_vars, draw_vars, kruskals_vars>>

\* ------------------------------------------------------------ specification
\* ordered pairs of distinct nodes 0..n-1
Pairs(n) == {e \in (0..(n - 1)) \X (0..(n - 1)) : e[1] # e[2]}

\* get_edges() returns list(set(edges)): distinct tuples in any order
EdgeLists(n) ==
    UNION { {es \in [1..len -> Pairs(n)] :
                \A x, y \in 1..len : x # y => es[x] # es[y]} :
            len \in 0..MaxEdges }

\* an edge (u, v) with u > v only after the edge (v, u)
ForwardFirst(es) ==
    \A k \in 1..Len(es) :
        es[k][1] > es[k][2] => \E j \in 1..(k - 1) : es[j] = <<es[k][2], es[k][1]>>

\* the drawings without parallel edges, each edge drawn from its lower to
\* its higher node, of up to MaxEdges + 1 edges: enough for a cycle with a
\* node hanging from it
SimpleEdgeLists(n) ==
    UNION { {es \in [1..len -> {e \in Pairs(n) : e[1] < e[2]}] :
                \A x, y \in 1..len : x # y => es[x] # es[y]} :
            len \in 0..(MaxEdges + 1) }

\* The edge lists of a drawing of n nodes, by kind: every list of EdgeLists,
\* the ForwardFirst ones, or the ones of SimpleEdgeLists.
edge_lists(kind, n) ==
    CASE kind = "all" -> EdgeLists(n)
      [] kind = "forward_first" -> {es \in EdgeLists(n) : ForwardFirst(es)}
      [] kind = "simple" -> SimpleEdgeLists(n)

\* The state when Run has called create_networkx_graph on a graph drawn in
\* the editor, with one of the buttons in algorithms selected: nodes are
\* named 0, 1, ... by the counter node_name, the edge list is one of
\* edge_lists(kind, n), start is a node that was clicked or the default 0
\* (the default alone when default_start).
InitOn(algorithms, kind, default_start) ==
    /\ selected_algorithm \in algorithms
    /\ \E layout \in Layouts :
         \E n \in 0..Len(layout) :
            /\ nodes = [k \in 1..n |-> k - 1]
            /\ position = [v \in 0..(n - 1) |-> layout[v + 1]]
            /\ edges \in edge_lists(kind, n)
            /\ start \in IF default_start THEN {0} ELSE {0} \cup (0..(n - 1))
            /\ my_nodes = [k \in 1..n |-> Node(k - 1, layout[k], 0)]
            /\ graph = file_edges([v \in 0..(n - 1) |-> << >>], my_nodes, edges)
            /\ edge_list = [k \in 1..Len(edges) |->
                               Edge(my_nodes[edges[k][1] + 1], my_nodes[edges[k][2] + 1])]
            /\ node_name = n
    /\ add_node_mode = 4
    /\ primary = -1
    /\ LET g == create_networkx_graph(position, nodes, edges)
       IN  /\ adj_list = g.adj_list
           /\ edge_weights_labels = g.edge_weights_labels
    /\ pc = "idle"
    /\ queue = << >> /\ bfs_visited = << >> /\ order_visited = << >>
    /\ stack = << >> /\ visited = << >> /\ path = << >> /\ order = << >>
    /\ dists = << >> /\ heap = << >> /\ animation_dists = << >> /\ node_order = << >>
    /\ targeted_index = 0 /\ current_label = << >> /\ targeted_nodes = << >>
    /\ root = << >> /\ i = 0 /\ order_vis = << >>
    /\ call_adj = adj_list
    /\ call_labels = edge_weights_labels

\* With forward_first the edge lists are those of ForwardFirst.
InitWith(algorithms, forward_first, default_start) ==
    InitOn(algorithms, IF forward_first THEN "forward_first" ELSE "all",
           default_start)

Init == InitWith(algo_buttons, FALSE, FALSE)

Next ==
    \/ update_bfs \/ bfs_step \/ bfs_return
    \/ update_dfs \/ dfs_keyerror \/ dfs_skip \/ dfs_visit \/ dfs_return
    \/ update_dijk \/ dijk_step \/ dijk_return \/ update_dijk_draw
    \/ update_mst \/ kruskals_step \/ kruskals_return

Spec == Init /\ [][Next]_vars

\* The same program with one algorithm button selected before Run.  bfs,
\* dfs and dijk read adj_list alone, and create_networkx_graph builds the
\* same adj_list from an edge (u, v) as from (v, u): their edge lists are
\* the ForwardFirst ones.  kruskals does not read start: it is left at its
\* default.
InitBfs == InitWith({"Bfs"}, TRUE, FALSE)
NextBfs == update_bfs \/ bfs_step \/ bfs_return
SpecBfs == InitBfs /\ [][NextBfs]_vars

InitDfs == InitWith({"Dfs"}, TRUE, FALSE)
NextDfs == update_dfs \/ dfs_keyerror \/ dfs_skip \/ dfs_visit \/ dfs_return
SpecDfs == InitDfs /\ [][NextDfs]_vars

InitDijk == InitWith({"Dijkstra"}, TRUE, FALSE)
NextDijk == update_dijk \/ dijk_step \/ dijk_return \/ update_dijk_draw
SpecDijk == InitDijk /\ [][NextDijk]_vars

\* The three engines that are called with a start node, one of their
\* buttons selected before Run.
InitTraversals == InitWith({"Bfs", "Dfs", "Dijkstra"}, TRUE, FALSE)
NextTraversals ==
    \/ update_bfs \/ bfs_step \/ bfs_return
    \/ update_dfs \/ dfs_keyerror \/ dfs_skip \/ dfs_visit \/ dfs_return
    \/ update_dijk \/ dijk_step \/ dijk_return \/ update_dijk_draw
SpecTraversals == InitTraversals /\ [][NextTraversals]_vars

\* dijk on the drawings of SimpleEdgeLists
InitDijkSimple == InitOn({"Dijkstra"}, "simple", FALSE)
SpecDijkSimple == InitDijkSimple /\ [][NextDijk]_vars

InitKruskals == InitWith({"Kruskal"}, FALSE, TRUE)
NextKruskals == update_mst \/ kruskals_step \/ kruskals_return
SpecKruskals == InitKruskals /\ [][NextKruskals]_vars

\* The program from its start: the empty drawing in mode 1, no algorithm
\* selected, start at its default.
InitEditor ==
    /\ selected_algorithm = ""
    /\ start = 0
    /\ my_nodes = << >> /\ graph = << >> /\ edge_list = << >>
    /\ add_node_mode = 1
    /\ primary = -1
    /\ node_name = 0
    /\ nodes = << >> /\ position = << >> /\ edges = << >>
    /\ adj_list = << >> /\ edge_weights_labels = << >>
    /\ pc = "editing"
    /\ queue = << >> /\ bfs_visited = << >> /\ order_visited = << >>
    /\ stack = << >> /\ visited = << >> /\ path = << >> /\ order = << >>
    /\ dists = << >> /\ heap = << >> /\ animation_dists = << >> /\ node_order = << >>
    /\ targeted_index = 0 /\ current_label = << >> /\ targeted_nodes = << >>
    /\ root = << >> /\ i = 0 /\ order_vis = << >>
    /\ call_adj = << >> /\ call_labels = << >>

\* The clicks that draw the graph, and Run.  An algorithm button changes
\* selected_algorithm and sets mode 4; the button "Select Start node" sets
\* mode 4 alone.
NextEditor ==
    \/ click_mode_button \/ add_node_click \/ add_edge_click
    \/ del_edge_click \/ select_start_click \/ run_clicked

SpecEditor == InitEditor /\ [][NextEditor]_vars

\* The editor with the button "Kruskal", and the animation of kruskals
\* after Run; update_mst is not given start, whose selection is left out.
click_kruskal == click_algorithm_in({"Kruskal"})

NextEditorKruskals ==
    \/ click_mode_button \/ click_kruskal \/ add_node_click \/ add_edge_click
    \/ del_edge_click \/ run_clicked
    \/ update_mst \/ kruskals_step \/ kruskals_return

SpecEditorKruskals == InitEditor /\ [][NextEditorKruskals]_vars

\* The engines as Python runs them: a call that has started executes its
\* loop to the end, pass after pass, with nothing else in between (the
\* callbacks run synchronously on the one thread of the animation).  The
\* next frame, update_*, depends on the timer and the window and is not
\* required to come.
InitFair == InitWith(algo_buttons, TRUE, FALSE)

\* where each engine is in its loop: every pass changes it
engine_pos == <<pc, queue, stack, heap, i>>

\* a pass of the loop of the engine that is running, or its return: at
\* most one of these is possible in a state
engine_step ==
    \/ bfs_step \/ bfs_return
    \/ dfs_keyerror \/ dfs_skip \/ dfs_visit \/ dfs_return
    \/ dijk_step \/ dijk_return
    \/ kruskals_step \/ kruskals_return

Fairness == WF_engine_pos(engine_step)

\* the drawing of update_dijk comes after dijk has returned and is left out
NextFair ==
    \/ update_bfs \/ bfs_step \/ bfs_return
    \/ update_dfs \/ dfs_keyerror \/ dfs_skip \/ dfs_visit \/ dfs_return
    \/ update_dijk \/ dijk_step \/ dijk_return
    \/ update_mst \/ kruskals_step \/ kruskals_return

SpecFair == InitFair /\ [][NextFair]_vars /\ Fairness

\* ------------------------------------------- reference definitions (graphs)
\* b is listed under a
Adjacent(g, a, b) == \E k \in 1..Len(g[a]) : g[a][k][2] = b

RECURSIVE Reach(_, _)
\* the nodes joined to a node of S by a chain of adjacency entries
Reach(g, S) ==
    LET T == S \cup {n \in DOMAIN g : \E m \in S : Adjacent(g, m, n)}
    IN  IF T = S THEN S ELSE Reach(g, T)

Component(g, s) == Reach(g, {s})

Components(g) == {Component(g, n) : n \in DOMAIN g}

Min(a, b) == IF a <= b THEN a ELSE b

RECURSIVE SumOfWeights(_)
SumOfWeights(entries) ==
    IF entries = << >> THEN 0 ELSE Head(entries)[1] + SumOfWeights(Tail(entries))

RECURSIVE TotalWeight(_, _)
\* the weights of all adjacency entries of the nodes 0..n-1, added up
TotalWeight(g, n) ==
    IF n = 0 THEN 0 ELSE SumOfWeights(g[n - 1]) + TotalWeight(g, n - 1)

\* longer than any path without a repeated entry: stands for "no path"
Unreachable(g, n) == TotalWeight(g, n) + 1

\* weight of the lightest entry for b under a, Unreachable without one
DirectWeight(g, n, a, b) ==
    LET ws == {g[a][k][1] : k \in {k \in 1..Len(g[a]) : g[a][k][2] = b}}
    IN  IF a = b THEN 0
        ELSE IF ws = {} THEN Unreachable(g, n)
        ELSE CHOOSE w \in ws : \A x \in ws : w <= x

RECURSIVE FloydWarshallFrom(_, _, _, _)
\* the triple loop "for via, for a, for b" over nodes 0..n-1, from its pass
\* number step on; D maps a pair of nodes to the best distance known,
\* capped at top
FloydWarshallFrom(D, n, top, step) ==
    IF step >= n * n * n THEN D
    ELSE LET via == step \div (n * n)
             a == (step \div n) % n
             b == step % n
             best == Min(D[<<a, b>>], Min(top, D[<<a, via>>] + D[<<via, b>>]))
         IN  FloydWarshallFrom([D EXCEPT ![<<a, b>>] = best], n, top, step + 1)

\* all-pairs shortest distances of the graph on nodes 0..n-1
FloydWarshall(g, n) ==
    FloydWarshallFrom([e \in (0..(n - 1)) \X (0..(n - 1)) |-> DirectWeight(g, n, e[1], e[2])],
                      n, Unreachable(g, n), 0)

\* the graph on 0..n-1 whose edges are the labels es[k], k in S
EdgeGraph(n, es, S) ==
    [a \in 0..(n - 1) |->
        {b \in 0..(n - 1) : \E k \in S : {es[k][1], es[k][2]} = {a, b} /\ a # b}]

RECURSIVE ReachE(_, _)
ReachE(eg, S) ==
    LET T == S \cup UNION {eg[m] : m \in S}
    IN  IF T = S THEN S ELSE ReachE(eg, T)

ComponentsE(n, es, S) ==
    LET eg == EdgeGraph(n, es, S) IN {ReachE(eg, {a}) : a \in 0..(n - 1)}

RECURSIVE SumWeights(_, _)
SumWeights(es, S) ==
    IF S = {} THEN 0
    ELSE LET k == CHOOSE k \in S : TRUE IN es[k][3] + SumWeights(es, S \ {k})

\* the spanning forests of the edge list: acyclic edge sets that join
\* whatever the whole list joins
SpanningForests(n, es) ==
    LET all == 1..Len(es)
        whole == ComponentsE(n, es, all)
    IN  {S \in SUBSET all :
            /\ ComponentsE(n, es, S) = whole
            /\ Cardinality(S) = n - Cardinality(whole)}

MinForestWeight(n, es) ==
    LET ws == {SumWeights(es, S) : S \in SpanningForests(n, es)}
    IN  CHOOSE w \in ws : \A x \in ws : w <= x

Accepted(trace) == {k \in 1..Len(trace) : trace[k][2]}

AcceptedWeight(trace) == SumWeights([k \in 1..Len(trace) |-> trace[k][1]], Accepted(trace))

\* ------------------------------------------------------------------- claims
BfsReturned == pc = "done" /\ selected_algorithm = "Bfs"
DijkReturned == pc = "dijk_returned"
KruskalsReturned == pc = "done" /\ selected_algorithm = "Kruskal"
DfsReturned == pc = "done" /\ selected_algorithm = "Dfs"

\* C1: the trace bfs returns begins with (start, start); the targets of its
\* events are exactly the nodes of start's connected component, each the
\* target of exactly one event, and no event names a node outside it.
C1_BfsVisitsComponentOnce ==
    BfsReturned =>
        LET comp == Component(adj_list, start)
            n == Len(order_visited)
        IN  /\ order_visited[1] = <<start, start>>
            /\ {order_visited[k][2] : k \in 1..n} = comp
            /\ \A j, k \in 1..n : j # k => order_visited[j][2] # order_visited[k][2]
            /\ \A k \in 1..n : order_visited[k][1] \in comp

\* bfs has returned a trace of three events or more on a graph with a node
\* outside the component of start and a node met again after it was visited
C1_Witness ==
    /\ BfsReturned
    /\ Len(order_visited) >= 3
    /\ Component(adj_list, start) # DOMAIN adj_list
    /\ \E a \in DOMAIN adj_list : Len(adj_list[a]) >= 2

\* the snapshot number k of the trace of dijk
Snapshot(k) == deref(animation_dists[k], dists)

\* C2: the last snapshot dijk returns gives every node of start's component
\* its shortest-path distance (Floyd-Warshall on the adjacency list) and
\* every other node INF.
C2_DijkFinalDistances ==
    DijkReturned =>
        LET final == Snapshot(Len(animation_dists))
            ref == FloydWarshall(adj_list, Len(nodes))
            comp == Component(adj_list, start)
            none == Unreachable(adj_list, Len(nodes))
        IN  /\ DOMAIN final = DOMAIN adj_list
            /\ \A n \in DOMAIN adj_list :
                 IF n \in comp
                 THEN ref[<<start, n>>] < none /\ final[n] = ref[<<start, n>>]
                 ELSE ref[<<start, n>>] = none /\ final[n] = INF

\* dijk has returned after relaxing some node twice, with a node out of reach
C2_Witness ==
    /\ DijkReturned
    /\ Component(adj_list, start) # DOMAIN adj_list
    /\ \E j, k \in 2..Len(node_order) : j < k /\ node_order[j] = node_order[k]

\* C3: the weights of the edges kruskals accepts add up to the weight of a
\* minimum spanning forest of the edge list (least total over all spanning
\* forests), connected or not.
C3_KruskalMinimal ==
    KruskalsReturned =>
        AcceptedWeight(order_vis) = MinForestWeight(Len(nodes), call_labels)

\* kruskals has returned on a disconnected graph whose edge list was not
\* sorted, having rejected an edge
C3_Witness ==
    /\ KruskalsReturned
    /\ call_labels # edge_weights_labels
    /\ Cardinality(ComponentsE(Len(nodes), call_labels, 1..Len(call_labels))) > 1
    /\ \E k \in 1..Len(order_vis) : ~ order_vis[k][2]

\* C4: the number of accepted events is N minus the number of connected
\* components of the graph.
C4_KruskalAcceptedCount ==
    KruskalsReturned =>
        Cardinality(Accepted(order_vis))
            = Len(nodes) - Cardinality(Components(adj_list))

\* kruskals has returned with an accepted and a rejected edge on a graph of
\* two components or more
C4_Witness ==
    /\ KruskalsReturned
    /\ Cardinality(Components(adj_list)) >= 2
    /\ \E j, k \in 1..Len(order_vis) : order_vis[j][2] /\ ~ order_vis[k][2]

\* position of the label e in the list es
IndexOf(es, e) == CHOOSE k \in 1..Len(es) : es[k] = e

\* C5: the trace has one event per input edge, by ascending weight, equal
\* weights in the order of the list kruskals was called on; an event is
\* accepted exactly when the accepted edges before it do not join its two
\* endpoints.
C5_KruskalTrace ==
    KruskalsReturned =>
        LET n == Len(order_vis)
            edge(k) == order_vis[k][1]
        IN  /\ n = Len(call_labels)
            /\ {edge(k) : k \in 1..n} = Range(call_labels)
            /\ \A j, k \in 1..n : j < k =>
                 \/ edge(j)[3] < edge(k)[3]
                 \/ /\ edge(j)[3] = edge(k)[3]
                    /\ IndexOf(call_labels, edge(j)) < IndexOf(call_labels, edge(k))
            /\ \A k \in 1..n :
                 LET before == {j \in Accepted(order_vis) : j < k}
                     eg == EdgeGraph(Len(nodes), [j \in 1..n |-> edge(j)], before)
                 IN  order_vis[k][2] <=> edge(k)[2] \notin ReachE(eg, {edge(k)[1]})

\* kruskals has returned a trace in which two edges of equal weight follow a
\* lighter one that came after them in the list, and an edge is rejected
C5_Witness ==
    /\ KruskalsReturned
    /\ \E j, k \in 1..Len(call_labels) :
         /\ j < k
         /\ call_labels[j][3] > call_labels[k][3]
    /\ \E j, k \in 1..Len(order_vis) :
         j # k /\ order_vis[j][1][3] = order_vis[k][1][3]
    /\ \E k \in 1..Len(order_vis) : ~ order_vis[k][2]


\* first position of node v in the list p
FirstIndex(p, v) == CHOOSE k \in 1..Len(p) : p[k] = v /\ \A j \in 1..(k - 1) : p[j] # v

\* C6: in the path dfs builds, every non-root node is visited once; the
\* entries of its subtree follow its visit, end on the node itself, and the
\* entry right after them is its parent (the entry before its visit, a
\* neighbour found earlier); the root gets no marker, so -1 is not in path.
C6_DfsBacktrack ==
    DfsReturned =>
        /\ -1 \notin Range(path)
        /\ path[1] = start
        /\ \A j, k \in 1..Len(visited) : j # k => visited[j] # visited[k]
        /\ Range(path) = Range(visited)
        /\ Len(path) = 2 * Len(visited) - 1
        /\ \A v \in Range(visited) \ {start} :
             LET first == FirstIndex(path, v)
                 parent == path[first - 1]
                 after == {k \in (first + 1)..Len(path) : path[k] = parent}
             IN  /\ first > 1
                 /\ Adjacent(adj_list, parent, v)
                 /\ FirstIndex(path, parent) < first
                 /\ after # {}
                 /\ LET back == CHOOSE k \in after : \A x \in after : k <= x
                    IN  /\ path[back - 1] = v
                        /\ \A k \in 1..Len(path) : path[k] = v => k \in first..(back - 1)
                        /\ \A k \in first..(back - 1) : FirstIndex(path, path[k]) >= first

\* dfs has returned a path that goes two levels down, backtracks and meets a
\* visited neighbour again
C6_Witness ==
    /\ DfsReturned
    /\ Len(path) >= 7
    /\ Cardinality({path[1], path[2], path[3]}) = 3
    /\ \E a \in DOMAIN adj_list : Len(adj_list[a]) >= 3

DijkRunning == pc \in {"dijk", "dijk_returned"}

\* C7: from one snapshot of the trace of dijk to the next, no node's
\* recorded distance increases.
C7_DijkMonotone ==
    DijkRunning =>
        \A k \in 1..(Len(animation_dists) - 1) :
            \A n \in DOMAIN Snapshot(k) : Snapshot(k + 1)[n] <= Snapshot(k)[n]

\* dijk has returned a trace in which some node's distance went down twice
C7_Witness ==
    /\ DijkReturned
    /\ \E n \in DOMAIN adj_list :
         \E j, k \in 2..Len(animation_dists) :
            /\ j < k
            /\ Snapshot(j)[n] < Snapshot(j - 1)[n]
            /\ Snapshot(k)[n] < Snapshot(k - 1)[n]

\* the snapshots and the relaxed nodes pair up as the claim says
C8_TraceShape ==
    /\ DijkRunning =>
         /\ Len(animation_dists) = Len(node_order)
         /\ node_order[1] = start
         /\ DOMAIN adj_list \subseteq DOMAIN Snapshot(1)
         /\ Snapshot(1)[start] = 0
         /\ \A n \in DOMAIN adj_list \ {start} : Snapshot(1)[n] = INF
         /\ \A k \in 2..Len(animation_dists) :
              /\ DOMAIN Snapshot(k) = DOMAIN Snapshot(k - 1)
              /\ \A n \in DOMAIN Snapshot(k) :
                   IF n = node_order[k]
                   THEN Snapshot(k)[n] < Snapshot(k - 1)[n]
                   ELSE Snapshot(k)[n] = Snapshot(k - 1)[n]
    /\ (pc = "done" /\ selected_algorithm = "Dijkstra") =>
         /\ targeted_index \in 0..(Len(node_order) - 1)
         /\ targeted_nodes = <<node_order[targeted_index + 1]>>

\* a pass of the loop of dijk leaves the snapshots recorded before it as
\* they were
C8_SnapshotsKept ==
    (pc = "dijk" /\ pc' = "dijk") =>
        /\ Len(animation_dists') >= Len(animation_dists)
        /\ \A k \in 1..Len(animation_dists) :
             deref(animation_dists'[k], dists') = Snapshot(k)

\* C8: dijk returns two lists of equal length; the first snapshot has start
\* at 0 and every other node at INF; snapshot k differs from snapshot k-1 at
\* the node order_visited[k] only, where it is strictly smaller; update_dijk
\* shows snapshot targeted_index with the node order_visited[targeted_index];
\* a relaxation changes no snapshot already recorded.
C8_DijkTrace == [](C8_TraceShape) /\ [][C8_SnapshotsKept]_vars

\* dijk has returned after three relaxations or more, one of them in a pass
\* later than the first, and a frame past the first has been drawn
C8_Witness ==
    /\ pc = "done" /\ selected_algorithm = "Dijkstra"
    /\ Len(node_order) >= 4
    /\ targeted_index >= 2
    /\ \E j, k \in 2..Len(node_order) : j < k /\ node_order[j] = node_order[k]

RECURSIVE RootOf(_, _)
\* the root x hangs under, read without changing the list root
RootOf(r, x) == IF r[x] = x THEN x ELSE RootOf(r, r[x])

\* the pairs of elements that share a set
SameSet(r) == {e \in (DOMAIN r) \X (DOMAIN r) : RootOf(r, e[1]) = RootOf(r, e[2])}

KruskalsRunning == pc = "kruskals" \/ KruskalsReturned

\* endpoints joined by join stay in one set; find gives the same
\* representative twice in a row and moves no element to another set
C9_FindConsistent ==
    KruskalsRunning =>
        /\ \A k \in Accepted(order_vis) :
             LET fa == find(root, order_vis[k][1][1])
                 fb == find(fa.root, order_vis[k][1][2])
             IN  fa.rep = fb.rep
        /\ \A x \in DOMAIN root :
             LET f == find(root, x)
                 again == find(f.root, x)
             IN  /\ again.rep = f.rep
                 /\ again.root = f.root
                 /\ f.rep = RootOf(root, x)
                 /\ SameSet(f.root) = SameSet(root)

\* the pass that accepts edge (a, b) hangs the root of a's set under the
\* root of b's set and merges exactly these two sets
C9_JoinStep ==
    (pc = "kruskals" /\ Len(order_vis') = Len(order_vis) + 1 /\ order_vis'[Len(order_vis')][2]) =>
        LET a == order_vis'[Len(order_vis')][1][1]
            b == order_vis'[Len(order_vis')][1][2]
            ra == RootOf(root, a)
            rb == RootOf(root, b)
        IN  /\ ra # rb
            /\ root'[ra] = rb
            /\ root'[rb] = rb
            /\ find(root', a).rep = find(root', b).rep
            /\ SameSet(root') =
                 SameSet(root) \cup
                   {e \in (DOMAIN root) \X (DOMAIN root) :
                      {RootOf(root, e[1]), RootOf(root, e[2])} = {ra, rb}}

\* C9: join(a, b) hangs the root of a's set under the root of b's set, so
\* find(a) = find(b) right after it and after every later join; find(x)
\* returns the same representative twice in a row and never changes which
\* elements share a set.
C9_UnionFind == [](C9_FindConsistent) /\ [][C9_JoinStep]_vars

\* kruskals has returned after two joins, the second on a set of two, leaving a
\* chain of two parent links in root
C9_Witness ==
    /\ KruskalsReturned
    /\ Cardinality(Accepted(order_vis)) >= 3
    /\ \E x \in DOMAIN root : root[x] # x /\ root[root[x]] # root[x]

\* C10: when an engine has returned, the adjacency list and the edge list
\* it was run on are what they were when it was called.
C10_InputsNotMutated ==
    pc \in {"done", "dijk_returned"} =>
        /\ adj_list = call_adj
        /\ edge_weights_labels = call_labels

\* C11: after any clicks in the editor the edge list holds no self-loop and
\* at most one edge for each unordered pair of nodes.
C11_OneEdgePerPair ==
    \A x, y \in 1..Len(edge_list) :
        /\ edge_list[x][1] # edge_list[x][2]
        /\ x # y => {edge_list[x][1], edge_list[x][2]} # {edge_list[y][1], edge_list[y][2]}

\* how many times x is in the list s
Count(s, x) == Cardinality({k \in 1..Len(s) : s[k] = x})

\* the weights of the entries of Graph.graph, and those of adj_list
GraphWeights == {e[2] : e \in UNION {Range(graph[a]) : a \in DOMAIN graph}}
AdjWeights == {e[1] : e \in UNION {Range(adj_list[a]) : a \in DOMAIN adj_list}}

\* C12: in every state of the editor, and in the adj_list Run builds from
\* it, b with weight w is listed under a as many times as a with weight w
\* is listed under b.
C12_Symmetric ==
    /\ \A a, b \in DOMAIN graph : \A w \in GraphWeights :
          Count(graph[a], <<b, w>>) = Count(graph[b], <<a, w>>)
    /\ \A a, b \in DOMAIN adj_list : \A w \in AdjWeights :
          Count(adj_list[a], <<w, b>>) = Count(adj_list[b], <<w, a>>)

\* Run on a drawing with two edges between the same two nodes
C12_Witness ==
    /\ pc = "idle"
    /\ \E a, b \in DOMAIN adj_list : \E w \in AdjWeights :
          /\ a # b
          /\ Count(adj_list[a], <<w, b>>) = 2
          /\ \E d \in GraphWeights : Count(graph[a], <<b, d>>) = 2

EngineRunning == pc \in {"bfs", "dfs", "dijk"}

\* no trace is returned from a start node that is not in the graph, and
\* where a run has failed the start node is not in the graph, the graph is
\* as it was and nothing but the first entries of the locals was made
C13_NoTrace ==
    /\ (pc \in {"done", "dijk_returned"} /\ selected_algorithm # "Kruskal")
           => start \in DOMAIN adj_list
    /\ pc = "error" =>
           /\ start \notin DOMAIN adj_list
           /\ adj_list = call_adj
           /\ edge_weights_labels = call_labels
           /\ selected_algorithm = "Bfs" =>
                  /\ order_visited = << <<start, start>> >>
                  /\ bfs_visited = <<start>>
           /\ selected_algorithm = "Dfs" =>
                  /\ path = <<start>>
                  /\ visited = <<start>>
           /\ selected_algorithm = "Dijkstra" =>
                  /\ node_order = <<start>>
                  /\ Len(animation_dists) = 1
                  /\ dists = dijk_init_dists(adj_list, start)

\* the first step of a run from such a start node fails, and a failed run
\* takes no further step
C13_FailsFirst ==
    /\ (EngineRunning /\ start \notin DOMAIN adj_list) => pc' = "error"
    /\ pc = "error" => pc' = "error"

\* C13: bfs, dfs and dijk called with a start node that is not a key of the
\* graph end in an error at their first lookup: no trace is returned, the
\* graph is unchanged and no neighbour was scanned.
C13_UnknownStart == [](C13_NoTrace) /\ [][C13_FailsFirst]_vars

\* dijk has failed on the empty graph
C13_Witness ==
    /\ pc = "error"
    /\ selected_algorithm = "Dijkstra"
    /\ start \notin DOMAIN adj_list
    /\ heap = << >>

RECURSIVE Climb(_, _, _)
\* the element k parent links above x
Climb(r, x, k) == IF k = 0 THEN x ELSE Climb(r, r[x], k - 1)

\* the parent links of root lead from every element to a representative
\* in fewer steps than there are elements: the recursion of find ends
C14_FindReturns ==
    KruskalsRunning =>
        \A x \in DOMAIN root :
            LET top == Climb(root, x, Len(nodes) - 1)
            IN  root[top] = top

\* an engine is in its loop, called with a start node of the graph
\* (kruskals takes none)
C14_Started ==
    \/ pc \in {"bfs", "dfs", "dijk"} /\ start \in DOMAIN adj_list
    \/ pc = "kruskals"

\* the engine has returned with nothing left to do
C14_Returned ==
    \/ BfsReturned /\ queue = << >>
    \/ DijkReturned /\ heap = << >>
    \/ DfsReturned /\ stack = << >>
    \/ KruskalsReturned /\ i = Len(edge_weights_labels)

\* C14: with the start node in the graph, bfs runs until its queue is empty
\* and returns, dijk until its heap is empty, dfs until its root call has
\* returned, and kruskals until every edge was looked at, each find call
\* returning.
C14_Terminates == [](C14_FindReturns) /\ (C14_Started ~> C14_Returned)

\* dijk has returned from a run that pushed a node twice, leaving a stale
\* entry in the heap to be popped
C14_Witness ==
    /\ DijkReturned
    /\ heap = << >>
    /\ Len(node_order) > Cardinality(Range(node_order))

\* the entry dijk is about to pop is stale: its key is greater than the
\* distance recorded for its node
StalePop ==
    /\ pc = "dijk"
    /\ heap # << >>
    /\ heap[1][1] > dists[heap[1][2]]

C15_NoRelaxation ==
    StalePop =>
        /\ dists' = dists
        /\ heap' = Tail(heap)
        /\ node_order' = node_order
        /\ animation_dists' = animation_dists

\* C15: the pass of dijk that pops a stale entry changes no distance,
\* pushes nothing and appends neither a node nor a snapshot.
C15_StalePopIsNoOp == [][C15_NoRelaxation]_vars

\* a stale entry of a node with three neighbours is about to be popped
C15_Witness ==
    /\ StalePop
    /\ Len(adj_list[heap[1][2]]) >= 3

\* the pair of entries k, k + 1 of path goes forward: it ends on the visit
\* of a node
Forward(k) == FirstIndex(path, path[k + 1]) = k + 1

\* C16: the order update_dfs builds is (start, start) followed by the pairs
\* (parent, child) in the order dfs discovered the children: every pair
\* of the path that goes forward is kept, every backtrack pair is dropped,
\* and each node of the component of start is the target of one event.
C16_DfsOrder ==
    DfsReturned =>
        /\ Len(order) = Len(visited)
        /\ order[1] = <<start, start>>
        /\ \A k \in 2..Len(visited) :
              order[k] = <<path[FirstIndex(path, visited[k]) - 1], visited[k]>>
        /\ \A k \in 1..(Len(path) - 1) :
              (<<path[k], path[k + 1]>> \in Range(order)) <=> Forward(k)
        /\ {order[k][2] : k \in 1..Len(order)} = Component(adj_list, start)
        /\ \A j, k \in 1..Len(order) : j # k => order[j][2] # order[k][2]

\* update_dfs has built the order from a path in which a backtrack pair is
\* followed by a forward pair, on a graph with a cycle
C16_Witness ==
    /\ DfsReturned
    /\ Len(order) >= 3
    /\ Len(edges) >= Len(nodes)
    /\ \E k \in 1..(Len(path) - 2) : ~Forward(k) /\ Forward(k + 1)

\* the nodes of the drawing are named 0, 1, ... in the order they were
\* added, node_name is the next name, and no click sets mode 2
C17_Names ==
    /\ add_node_mode \in {0, 1, 3, 4}
    /\ node_name = Len(my_nodes)
    /\ \A k \in 1..Len(my_nodes) : my_nodes[k].name = k - 1
    /\ \A k \in 1..Len(edge_list) :
          {edge_list[k][1], edge_list[k][2]} \subseteq 0..(Len(my_nodes) - 1)

\* after Run the node list is 0 .. N-1 and, while kruskals runs, root has
\* these indexes, and the endpoints of the edges and the parent links that
\* find follows are among them
C17_InRange ==
    /\ pc # "editing" => nodes = [k \in 1..Len(my_nodes) |-> k - 1]
    /\ KruskalsRunning =>
          /\ DOMAIN root = 0..(Len(nodes) - 1)
          /\ \A k \in 1..Len(edge_weights_labels) :
                {edge_weights_labels[k][1], edge_weights_labels[k][2]} \subseteq DOMAIN root
          /\ \A x \in DOMAIN root : root[x] \in DOMAIN root

\* C17: after any clicks in the editor and Run with Kruskal selected, the
\* node names are 0 .. N-1, so every index kruskals uses into root, a list
\* of length N, is one of them.
C17_RootIndexes == C17_Names /\ C17_InRange

\* kruskals has returned on a drawing of three nodes with an accepted edge
\* to the node named last
C17_Witness ==
    /\ KruskalsReturned
    /\ Len(nodes) = 3
    /\ \E k \in 1..Len(order_vis) :
          /\ order_vis[k][2]
          /\ 2 \in {order_vis[k][1][1], order_vis[k][1][2]}
    /\ root[0] # 0 \/ root[2] # 2

====
